---- MODULE Spec2Model ----
(***************************************************************************)
(* Model of biosignalsnotebooks/conversion.py: raw_to_phy, the conversion  *)
(* of raw ADC codes to physical units.  A call of raw_to_phy is executed   *)
(* step by step on a per-thread stack of activation frames, so that the    *)
(* recursive self-calls for derived units (C via K via Ohm, V via mV,      *)
(* A via uA) and the propagation of exceptions are explicit.               *)
(*                                                                         *)
(* Numbers: numpy float arithmetic is modelled by exact arithmetic.  A     *)
(* finite value is kept in factored form (q / gain) * 10^-e with q and     *)
(* gain rationals, which keeps every integer small; division by zero       *)
(* yields inf/nan as numpy does for arrays; numpy.log is not rational, so  *)
(* the Steinhart-Hart value of a positive finite resistance is kept as a   *)
(* term over its exact argument(s).                                        *)
(***************************************************************************)
EXTENDS Integers, Sequences, FiniteSets, TLC

\* ------------------------------------------------------------------ bounds
MaxLen == 2      \* longest raw sample sequence
MaxRaw == 2      \* largest raw code
NegRaw == 1      \* raw codes go down to -NegRaw
MaxRes == 2      \* largest integer resolution
MaxCalls == 3    \* most calls one thread makes one after the other
MaxSamples == 4  \* longest signal given to generate_time
MaxRate == 3     \* largest sample_rate
NegRate == 1     \* sample rates go down to -NegRate
NegRes == 1      \* integer resolutions go down to -NegRes

\* ------------------------------------------------------- exact arithmetic
Abs(x) == IF x < 0 THEN 0 - x ELSE x

RECURSIVE GCD(_, _)
GCD(a, b) == IF b = 0 THEN a ELSE GCD(b, a % b)

\* the rational n/d (d # 0) in lowest terms with a positive denominator
Rat(n, d) ==
    LET g == GCD(Abs(n), Abs(d))
        s == IF d < 0 THEN 0 - 1 ELSE 1
    IN  <<(s * n) \div g, (s * d) \div g>>

RatAdd(x, y) == Rat(x[1] * y[2] + y[1] * x[2], x[2] * y[2])
RatSub(x, y) == Rat(x[1] * y[2] - y[1] * x[2], x[2] * y[2])
RatMul(x, y) == Rat(x[1] * y[1], x[2] * y[2])
RatDiv(x, y) == Rat(x[1] * y[2], x[2] * y[1])
RatLess(x, y) == x[1] * y[2] < y[1] * x[2]

RECURSIVE IntPow2(_)
IntPow2(n) == IF n = 0 THEN 1 ELSE 2 * IntPow2(n - 1)

\* ------------------------------------------------------ floating values
Fin(q) == [k |-> "fin", q |-> q, gain |-> <<1, 1>>, e |-> 0]
Inf(s) == [k |-> "inf", s |-> s]
NaN == [k |-> "nan"]

\* x / y for a finite x = q and a rational y that may be zero
FloatDiv(x, y) ==
    IF y[1] # 0 THEN Fin(RatDiv(x, y))
    ELSE IF x[1] > 0 THEN Inf(1)
    ELSE IF x[1] < 0 THEN Inf(0 - 1)
    ELSE NaN

\* x / gain for a finite x = q and one of the calibration gains
DivGain(q, gain) == [k |-> "fin", q |-> q, gain |-> gain, e |-> 0]

\* x * 10^-n
ScalePow10(x, n) ==
    IF x.k = "fin" THEN [x EXCEPT !.e = @ + n] ELSE x

\* x - c for a rational c
SubConst(x, c) ==
    CASE x.k = "fin" -> [x EXCEPT !.q = RatSub(@, c)]
      [] x.k = "sh"  -> [x EXCEPT !.sub = RatAdd(@, c)]
      [] OTHER       -> x

\* 1 / (a_0 + a_1 * log(r1) + a_2 * log(r2) ** 3)
SteinhartHart(r1, r2) ==
    LET Neg(r) == (r.k = "fin" /\ r.q[1] < 0) \/ (r.k = "inf" /\ r.s < 0)
        Zero(r) == r.k = "fin" /\ r.q[1] = 0
        Pos(r) == r.k = "fin" /\ r.q[1] > 0
    IN  IF r1.k = "nan" \/ r2.k = "nan" \/ Neg(r1) \/ Neg(r2) THEN NaN
        ELSE IF Pos(r1) /\ Pos(r2)
             THEN [k |-> "sh", r1 |-> r1.q, r2 |-> r2.q, sub |-> <<0, 1>>]
        ELSE IF Zero(r1) # Zero(r2)
             THEN (IF Pos(r1) \/ Pos(r2)
                   THEN Fin(<<0, 1>>)      \* 1 / (finite + inf) or 1 / (finite - inf)
                   ELSE NaN)               \* 1 / (inf - inf)
        ELSE Fin(<<0, 1>>)                 \* 1 / -inf  or  1 / inf

\* ------------------------------------------------------------ the inputs
PLUX == {"bioplux", "bioplux_exp", "biosignalsplux", "rachimeter", "channeller",
         "swifter", "ddme_openbanplux"}
BITALINO == {"bitalino", "bitalino_rev", "bitalino_riot"}
Devices == PLUX \cup BITALINO \cup {"unknown_device"}

SpO2Sensors == {"SpO2.ARM", "SpO2.HEAD", "SpO2.FING"}
Sensors == {"TEMP", "EMG", "ECG", "BVP"} \cup SpO2Sensors \cup {"EDA"}

Options == {"Ohm", "K", "C", "mV", "V", "uA", "A", "s"}

IntRes(r) == [type |-> "int", n |-> r, d |-> 1]
FloatRes(n, d) == [type |-> "float", n |-> n, d |-> d]
Resolutions ==
    {IntRes(r) : r \in (0 - NegRes)..MaxRes} \cup {FloatRes(5, 2), FloatRes(2, 1)}

RawVals == (0 - NegRaw)..MaxRaw
RawSeqs == UNION {[1..n -> RawVals] : n \in 0..MaxLen}

Calls == [sensor : Sensors, device : Devices, raw_signal : RawSeqs,
          resolution : Resolutions, option : Options]

Procs == {1, 2}

\* a few calls that between them take every path through raw_to_phy
CallOf(sensor, device, raw_signal, resolution, option) ==
    [sensor |-> sensor, device |-> device, raw_signal |-> raw_signal,
     resolution |-> resolution, option |-> option]
SmallCalls ==
    {CallOf("TEMP", "bioplux", <<1, 2>>, IntRes(2), "C"),
     CallOf("TEMP", "bitalino", <<1>>, IntRes(2), "K"),
     CallOf("ECG", "bitalino", <<0, 1>>, IntRes(1), "V"),
     CallOf("ECG", "unknown_device", <<1>>, IntRes(2), "V"),
     CallOf("EMG", "bioplux", <<1>>, IntRes(2), "s"),
     CallOf("BVP", "swifter", <<2>>, FloatRes(5, 2), "uA"),
     CallOf("SpO2.HEAD", "swifter", <<1, 0>>, IntRes(0), "A"),
     CallOf("EDA", "bioplux", <<0>>, IntRes(1), "mV")}
NoCall == [sensor |-> "", device |-> "", raw_signal |-> <<>>,
           resolution |-> IntRes(0), option |-> ""]

\* ------------------------------------------------------------ raw_to_phy
\* the four RuntimeError messages of raw_to_phy, named as the error taxonomy
InvalidResolution == "The specified resolution needs to be an integer."
UnsupportedDeviceForUnit ==
    "The output specified unit does not have a defined transfer function for the used device."
UnsupportedUnit == "The selected output unit is invalid for the sensor under analysis."
UnsupportedSensor ==
    "The specified sensor is not valid or for now is not available for unit conversion."
TypeError == "unsupported operand type(s): 'NoneType'"

\* slip: any whole-valued number is accepted (resolution == int(resolution))
IsInt_WholeValue(resolution) == resolution.d = 1

\* isinstance(resolution, int)
IsInt(resolution) == resolution.type = "int"

\* 2 ** resolution (a negative exponent gives the float 1 / 2 ** -resolution);
\* only reached with an int
Pow2(resolution) ==
    IF resolution.n >= 0 THEN <<IntPow2(resolution.n), 1>>
    ELSE <<1, IntPow2(0 - resolution.n)>>

\* values of the local variable out
None == [none |-> TRUE, arr |-> <<>>]
Array(a) == [none |-> FALSE, arr |-> a]

\* what the if-cascade of one activation does next
Raise(msg) == [act |-> "raise", error |-> msg, option |-> "", out |-> <<>>, work |-> 0]
Assign(out) == [act |-> "assign", error |-> "", option |-> "", out |-> out, work |-> Len(out)]
Recurse(option) == [act |-> "call", error |-> "", option |-> option, out |-> <<>>, work |-> 0]
FallThrough == [act |-> "none", error |-> "", option |-> "", out |-> <<>>, work |-> 0]

\* slip: the offset term and the sample term are exchanged
Linear_Inverted(raw, resolution, vcc, offset, gain) ==
    DivGain(RatSub(RatMul(vcc, offset),
                   RatDiv(RatMul(<<raw, 1>>, vcc), Pow2(resolution))), gain)

\* (raw_signal * vcc / (2 ** resolution) - vcc * offset) / gain, one sample
Linear(raw, resolution, vcc, offset, gain) ==
    DivGain(RatSub(RatDiv(RatMul(<<raw, 1>>, vcc), Pow2(resolution)),
                   RatMul(vcc, offset)), gain)

TEMP_available_dev_1 == PLUX
TEMP_available_dev_2 == BITALINO

\* slip: a code below 0 is clamped to 0 before the formula is applied
Ohm_Clamped(raw, resolution) ==
    LET code == IF raw < 0 THEN 0 ELSE raw
    IN  FloatDiv(RatMul(<<10000, 1>>, <<code, 1>>), RatSub(Pow2(resolution), <<code, 1>>))

\* (1e4 * raw_signal) / (2**resolution - raw_signal), one sample
Ohm(raw, resolution) ==
    FloatDiv(RatMul(<<10000, 1>>, <<raw, 1>>), RatSub(Pow2(resolution), <<raw, 1>>))

\* ((raw_signal / (2 ** resolution)) * vcc - 0.5) * 100, one sample
BitalinoCelsius(raw, resolution, vcc) ==
    Fin(RatMul(RatSub(RatMul(RatDiv(<<raw, 1>>, Pow2(resolution)), vcc), <<1, 2>>),
               <<100, 1>>))

\* slip: the final else of the TEMP branch is missing, out stays None
TEMP_NoElse(f) ==
    LET vcc == <<3, 1>>
        n == Len(f.raw_signal)
    IN  IF f.option = "Ohm"
        THEN IF f.device \in TEMP_available_dev_1
             THEN Assign([i \in 1..n |-> Ohm(f.raw_signal[i], f.resolution)])
             ELSE Raise(UnsupportedDeviceForUnit)
        ELSE IF f.option = "K"
        THEN Recurse("Ohm")
        ELSE IF f.option = "C"
        THEN IF f.device \in TEMP_available_dev_1
             THEN Recurse("K")
             ELSE IF f.device \in TEMP_available_dev_2
             THEN Assign([i \in 1..n |-> BitalinoCelsius(f.raw_signal[i], f.resolution, vcc)])
             ELSE Raise(UnsupportedDeviceForUnit)
        ELSE FallThrough

\* slip: K tests the device itself and leaves out as it is for any other device
TEMP_KelvinSkipsDevice(f) ==
    LET vcc == <<3, 1>>
        n == Len(f.raw_signal)
    IN  IF f.option = "Ohm"
        THEN IF f.device \in TEMP_available_dev_1
             THEN Assign([i \in 1..n |-> Ohm(f.raw_signal[i], f.resolution)])
             ELSE Raise(UnsupportedDeviceForUnit)
        ELSE IF f.option = "K"
        THEN IF f.device \in TEMP_available_dev_1 THEN Recurse("Ohm") ELSE FallThrough
        ELSE IF f.option = "C"
        THEN IF f.device \in TEMP_available_dev_1
             THEN Recurse("K")
             ELSE IF f.device \in TEMP_available_dev_2
             THEN Assign([i \in 1..n |-> BitalinoCelsius(f.raw_signal[i], f.resolution, vcc)])
             ELSE Raise(UnsupportedDeviceForUnit)
        ELSE Raise(UnsupportedUnit)

\* slip: Celsius is derived from Kelvin for every device
TEMP_CelsiusViaKelvin(f) ==
    LET n == Len(f.raw_signal)
    IN  IF f.option = "Ohm"
        THEN IF f.device \in TEMP_available_dev_1
             THEN Assign([i \in 1..n |-> Ohm(f.raw_signal[i], f.resolution)])
             ELSE Raise(UnsupportedDeviceForUnit)
        ELSE IF f.option = "K"
        THEN Recurse("Ohm")
        ELSE IF f.option = "C"
        THEN IF f.device \in TEMP_available_dev_1 \cup TEMP_available_dev_2
             THEN Recurse("K")
             ELSE Raise(UnsupportedDeviceForUnit)
        ELSE Raise(UnsupportedUnit)

\* slip: the Ohm formula is applied whatever the device is
TEMP_OhmAnyDevice(f) ==
    LET vcc == <<3, 1>>
        n == Len(f.raw_signal)
    IN  IF f.option = "Ohm"
        THEN Assign([i \in 1..n |-> Ohm(f.raw_signal[i], f.resolution)])
        ELSE IF f.option = "K"
        THEN Recurse("Ohm")
        ELSE IF f.option = "C"
        THEN IF f.device \in TEMP_available_dev_1
             THEN Recurse("K")
             ELSE IF f.device \in TEMP_available_dev_2
             THEN Assign([i \in 1..n |-> BitalinoCelsius(f.raw_signal[i], f.resolution, vcc)])
             ELSE Raise(UnsupportedDeviceForUnit)
        ELSE Raise(UnsupportedUnit)

\* slip: Kelvin is derived from Celsius, which is derived from Kelvin
TEMP_KelvinFromCelsius(f) ==
    LET vcc == <<3, 1>>
        n == Len(f.raw_signal)
    IN  IF f.option = "Ohm"
        THEN IF f.device \in TEMP_available_dev_1
             THEN Assign([i \in 1..n |-> Ohm(f.raw_signal[i], f.resolution)])
             ELSE Raise(UnsupportedDeviceForUnit)
        ELSE IF f.option = "K"
        THEN Recurse("C")
        ELSE IF f.option = "C"
        THEN IF f.device \in TEMP_available_dev_1
             THEN Recurse("K")
             ELSE IF f.device \in TEMP_available_dev_2
             THEN Assign([i \in 1..n |-> BitalinoCelsius(f.raw_signal[i], f.resolution, vcc)])
             ELSE Raise(UnsupportedDeviceForUnit)
        ELSE Raise(UnsupportedUnit)

\* slip: the Ohm formula is evaluated before the device is checked
TEMP_OhmBeforeCheck(f) ==
    LET vcc == <<3, 1>>
        n == Len(f.raw_signal)
    IN  IF f.option = "Ohm"
        THEN IF f.device \in TEMP_available_dev_1
             THEN Assign([i \in 1..n |-> Ohm(f.raw_signal[i], f.resolution)])
             ELSE [Raise(UnsupportedDeviceForUnit) EXCEPT !.work = n]
        ELSE IF f.option = "K"
        THEN Recurse("Ohm")
        ELSE IF f.option = "C"
        THEN IF f.device \in TEMP_available_dev_1
             THEN Recurse("K")
             ELSE IF f.device \in TEMP_available_dev_2
             THEN Assign([i \in 1..n |-> BitalinoCelsius(f.raw_signal[i], f.resolution, vcc)])
             ELSE Raise(UnsupportedDeviceForUnit)
        ELSE Raise(UnsupportedUnit)

TEMP(f) ==
    LET vcc == <<3, 1>>
        n == Len(f.raw_signal)
    IN  IF f.option = "Ohm"
        THEN IF f.device \in TEMP_available_dev_1
             THEN Assign([i \in 1..n |-> Ohm(f.raw_signal[i], f.resolution)])
             ELSE Raise(UnsupportedDeviceForUnit)
        ELSE IF f.option = "K"
        THEN Recurse("Ohm")
        ELSE IF f.option = "C"
        THEN IF f.device \in TEMP_available_dev_1
             THEN Recurse("K")
             ELSE IF f.device \in TEMP_available_dev_2
             THEN Assign([i \in 1..n |-> BitalinoCelsius(f.raw_signal[i], f.resolution, vcc)])
             ELSE Raise(UnsupportedDeviceForUnit)
        ELSE Raise(UnsupportedUnit)

EMG_available_dev_1 == PLUX
\* slip: the second list holds the whole BITalino family, as the ECG list does
EMG_available_dev_2_AllBitalino == BITALINO

EMG_available_dev_2 == {"bitalino"}
EMG_available_dev_3 == {"bitalino_rev", "bitalino_riot"}

\* slip: the gains of bitalino and of bitalino_rev / bitalino_riot are exchanged
EMG_SwappedGain(f) ==
    LET vcc == <<3, 1>>
        n == Len(f.raw_signal)
        mV(offset, gain) ==
            Assign([i \in 1..n |-> Linear(f.raw_signal[i], f.resolution, vcc, offset, gain)])
    IN  IF f.option = "mV"
        THEN IF f.device \in EMG_available_dev_1 THEN mV(<<1, 2>>, <<1, 1>>)
             ELSE IF f.device \in EMG_available_dev_2 THEN mV(<<1, 2>>, <<1009, 1000>>)
             ELSE IF f.device \in EMG_available_dev_3 THEN mV(<<1, 2>>, <<126, 125>>)
             ELSE Raise(UnsupportedDeviceForUnit)
        ELSE IF f.option = "V"
        THEN Recurse("mV")
        ELSE FallThrough

EMG(f) ==
    LET vcc == <<3, 1>>
        n == Len(f.raw_signal)
        mV(offset, gain) ==
            Assign([i \in 1..n |-> Linear(f.raw_signal[i], f.resolution, vcc, offset, gain)])
    IN  IF f.option = "mV"
        THEN IF f.device \in EMG_available_dev_1 THEN mV(<<1, 2>>, <<1, 1>>)
             ELSE IF f.device \in EMG_available_dev_2 THEN mV(<<1, 2>>, <<126, 125>>)
             ELSE IF f.device \in EMG_available_dev_3 THEN mV(<<1, 2>>, <<1009, 1000>>)
             ELSE Raise(UnsupportedDeviceForUnit)
        ELSE IF f.option = "V"
        THEN Recurse("mV")
        ELSE FallThrough

ECG_available_dev_1 == PLUX
ECG_available_dev_2 == BITALINO

\* slip: V is computed in place from the formula with the PLUX record, no device test
ECG_VoltInPlace(f) ==
    LET vcc == <<3, 1>>
        n == Len(f.raw_signal)
        mV(offset, gain) ==
            Assign([i \in 1..n |-> Linear(f.raw_signal[i], f.resolution, vcc, offset, gain)])
    IN  IF f.option = "mV"
        THEN IF f.device \in ECG_available_dev_1 THEN mV(<<1, 2>>, <<1019, 1000>>)
             ELSE IF f.device \in ECG_available_dev_2 THEN mV(<<1, 2>>, <<11, 10>>)
             ELSE Raise(UnsupportedDeviceForUnit)
        ELSE IF f.option = "V"
        THEN Assign([i \in 1..n |->
                 ScalePow10(Linear(f.raw_signal[i], f.resolution, vcc, <<1, 2>>,
                                   <<1019, 1000>>), 3)])
        ELSE FallThrough

\* slip: an unknown device gets the PLUX calibration instead of an error
ECG_DefaultGain(f) ==
    LET vcc == <<3, 1>>
        n == Len(f.raw_signal)
        mV(offset, gain) ==
            Assign([i \in 1..n |-> Linear(f.raw_signal[i], f.resolution, vcc, offset, gain)])
    IN  IF f.option = "mV"
        THEN IF f.device \in ECG_available_dev_2 THEN mV(<<1, 2>>, <<11, 10>>)
             ELSE mV(<<1, 2>>, <<1019, 1000>>)
        ELSE IF f.option = "V"
        THEN Recurse("mV")
        ELSE FallThrough

ECG(f) ==
    LET vcc == <<3, 1>>
        n == Len(f.raw_signal)
        mV(offset, gain) ==
            Assign([i \in 1..n |-> Linear(f.raw_signal[i], f.resolution, vcc, offset, gain)])
    IN  IF f.option = "mV"
        THEN IF f.device \in ECG_available_dev_1 THEN mV(<<1, 2>>, <<1019, 1000>>)
             ELSE IF f.device \in ECG_available_dev_2 THEN mV(<<1, 2>>, <<11, 10>>)
             ELSE Raise(UnsupportedDeviceForUnit)
        ELSE IF f.option = "V"
        THEN Recurse("mV")
        ELSE FallThrough

\* slip: the BITalino devices are listed for BVP as they are for EMG and ECG
BVP_available_dev_1_WithBitalino == PLUX \cup BITALINO

BVP_available_dev_1 == PLUX

\* slip: BVP takes the offset 0.5 of the EMG and ECG records
BVP_OffsetHalf(f) ==
    LET vcc == <<3, 1>>
        n == Len(f.raw_signal)
        uA(offset, gain) ==
            Assign([i \in 1..n |-> Linear(f.raw_signal[i], f.resolution, vcc, offset, gain)])
    IN  IF f.option = "uA"
        THEN IF f.device \in BVP_available_dev_1
             THEN uA(<<1, 2>>, <<95030303, 500000000>>)
             ELSE Raise(UnsupportedDeviceForUnit)
        ELSE IF f.option = "A"
        THEN Recurse("uA")
        ELSE FallThrough

BVP(f) ==
    LET vcc == <<3, 1>>
        n == Len(f.raw_signal)
        uA(offset, gain) ==
            Assign([i \in 1..n |-> Linear(f.raw_signal[i], f.resolution, vcc, offset, gain)])
    IN  IF f.option = "uA"
        THEN IF f.device \in BVP_available_dev_1
             THEN uA(<<0, 1>>, <<95030303, 500000000>>)
             ELSE Raise(UnsupportedDeviceForUnit)
        ELSE IF f.option = "A"
        THEN Recurse("uA")
        ELSE FallThrough

SpO2_available_dev_1 == {"channeller", "biosignalsplux", "swifter"}

\* slip: the elif for HEAD is missing, scale_factor stays None for SpO2.HEAD
scale_factor_NoHead(sensor) ==
    IF sensor \in {"SpO2.ARM", "SpO2.FING"} THEN <<6, 5>>
    ELSE <<0, 0>>

\* scale_factor; <<0, 0>> stands for None
scale_factor(sensor) ==
    IF sensor \in {"SpO2.ARM", "SpO2.FING"} THEN <<6, 5>>
    ELSE IF sensor = "SpO2.HEAD" THEN <<3, 20>>
    ELSE <<0, 0>>

\* slip: the first sample is taken as the baseline and subtracted from every sample
SpO2_Baseline(f) ==
    LET n == Len(f.raw_signal)
        sf == scale_factor(f.sensor)
    IN  IF f.option = "uA"
        THEN IF f.device \in SpO2_available_dev_1
             THEN IF sf = <<0, 0>> THEN Raise(TypeError)
                  ELSE Assign([i \in 1..n |->
                          Fin(RatMul(sf, RatDiv(<<f.raw_signal[i] - f.raw_signal[1], 1>>,
                                                Pow2(f.resolution))))])
             ELSE Raise(UnsupportedDeviceForUnit)
        ELSE IF f.option = "A"
        THEN Recurse("uA")
        ELSE FallThrough

SpO2(f) ==
    LET n == Len(f.raw_signal)
        sf == scale_factor(f.sensor)
    IN  IF f.option = "uA"
        THEN IF f.device \in SpO2_available_dev_1
             THEN IF sf = <<0, 0>> THEN Raise(TypeError)
                  ELSE Assign([i \in 1..n |->
                          Fin(RatMul(sf, RatDiv(<<f.raw_signal[i], 1>>, Pow2(f.resolution))))])
             ELSE Raise(UnsupportedDeviceForUnit)
        ELSE IF f.option = "A"
        THEN Recurse("uA")
        ELSE FallThrough

\* slip: the SpO2 branch is the final else, so every other tag is taken for SpO2
Branch_ElseSpO2(f) ==
    IF f.sensor = "TEMP" THEN TEMP(f)
    ELSE IF f.sensor = "EMG" THEN EMG(f)
    ELSE IF f.sensor = "ECG" THEN ECG(f)
    ELSE IF f.sensor = "BVP" THEN BVP(f)
    ELSE SpO2(f)

\* the cascade over sensor (lines 84, 115, 140, 161, 178, 198)
Branch(f) ==
    IF f.sensor = "TEMP" THEN TEMP(f)
    ELSE IF f.sensor = "EMG" THEN EMG(f)
    ELSE IF f.sensor = "ECG" THEN ECG(f)
    ELSE IF f.sensor = "BVP" THEN BVP(f)
    ELSE IF f.sensor \in SpO2Sensors THEN SpO2(f)
    ELSE Raise(UnsupportedSensor)

\* slip: Celsius is Kelvin - 273
Derived_273(f, val) ==
    LET n == Len(val)
    IN  IF f.sensor = "TEMP"
        THEN [i \in 1..n |-> SubConst(val[i], <<273, 1>>)]
        ELSE IF f.sensor \in {"EMG", "ECG"}
        THEN [i \in 1..n |-> ScalePow10(val[i], 3)]
        ELSE [i \in 1..n |-> ScalePow10(val[i], 6)]

\* slip: A is derived from uA with the factor of V from mV
Derived_Milli(f, val) ==
    LET n == Len(val)
    IN  IF f.sensor = "TEMP"
        THEN [i \in 1..n |-> SubConst(val[i], <<5463, 20>>)]
        ELSE [i \in 1..n |-> ScalePow10(val[i], 3)]

\* the arithmetic applied to the array a recursive call returned
Derived(f, val) ==
    LET n == Len(val)
    IN  IF f.sensor = "TEMP"
        THEN [i \in 1..n |-> SubConst(val[i], <<5463, 20>>)]       \* - 273.15
        ELSE IF f.sensor \in {"EMG", "ECG"}
        THEN [i \in 1..n |-> ScalePow10(val[i], 3)]                \* / 1000
        ELSE [i \in 1..n |-> ScalePow10(val[i], 6)]                \* * 1e-6

\* how a call ends
Pending == [kind |-> "pending", value |-> None, error |-> ""]
Returned(out) == [kind |-> "returned", value |-> out, error |-> ""]
Raised(msg) == [kind |-> "raised", value |-> None, error |-> msg]

\* raw_to_phy as a function of its arguments (the call run to its end)
RECURSIVE raw_to_phy(_)
raw_to_phy(c) ==
    IF ~IsInt(c.resolution) THEN Raised(InvalidResolution)
    ELSE LET b == Branch(c)
             sub == [sensor |-> c.sensor, device |-> c.device, raw_signal |-> c.raw_signal,
                     resolution |-> c.resolution, option |-> b.option]
         IN  CASE b.act = "raise"  -> Raised(b.error)
               [] b.act = "assign" -> Returned(Array(b.out))
               [] b.act = "none"   -> Returned(None)
               [] b.act = "call"   ->
                    LET r1 == raw_to_phy(sub)
                    IN  IF r1.kind = "raised" THEN r1
                        ELSE IF r1.value.none THEN Raised(TypeError)
                        ELSE IF b.option = "Ohm"
                        THEN LET r2 == raw_to_phy(sub)
                             IN  IF r2.kind = "raised" THEN r2
                                 ELSE IF r2.value.none THEN Raised(TypeError)
                                 ELSE Returned(Array([i \in 1..Len(r1.value.arr) |->
                                        SteinhartHart(r1.value.arr[i], r2.value.arr[i])]))
                        ELSE Returned(Array(Derived(c, r1.value.arr)))

\* ----------------------------------------------------------- the machine
VARIABLES
    args,       \* args[p]: the arguments thread p calls raw_to_phy with (the caller's objects)
    stack,      \* stack[p]: the activations of raw_to_phy of thread p, innermost last
    outcome,    \* outcome[p]: how the call of thread p ended
    applied,    \* applied[p]: number of samples arithmetic has been applied to so far
    todo,       \* todo[p]: the calls of raw_to_phy thread p makes after the current one
    log,        \* log[p]: the earlier calls of thread p, each with how it ended
    time_args,      \* time_args[p]: the arguments thread p calls generate_time with
    time_frame,     \* time_frame[p]: the activation of generate_time of thread p
    time_outcome    \* time_outcome[p]: how the call of generate_time of thread p ended

seqVars == <<todo, log>>
timeVars == <<time_args, time_frame, time_outcome>>
vars == <<args, stack, outcome, applied, todo, log, time_args, time_frame, time_outcome>>

\* a new activation: parameters bound, nothing executed yet
Frame(c, option) ==
    [sensor |-> c.sensor, device |-> c.device, raw_signal |-> c.raw_signal,
     resolution |-> c.resolution, option |-> option,
     pc |-> "enter", out |-> None, tmp |-> <<>>]

Top(p) == stack[p][Len(stack[p])]
SetTop(p, f) == [stack EXCEPT ![p] = [@ EXCEPT ![Len(@)] = f]]

\* an exception no activation catches: every activation of the thread is left
Unwind(p, msg) ==
    /\ stack' = [stack EXCEPT ![p] = <<>>]
    /\ outcome' = [outcome EXCEPT ![p] = Raised(msg)]

\* no arguments: the thread does not call generate_time
NoTimeCall == [signal |-> <<>>, sample_rate |-> 0, called |-> FALSE]
NoTimeFrame == [pc |-> "idle", nbr_of_samples |-> 0, end_of_time |-> <<0, 1>>]

Idle == /\ stack = [p \in Procs |-> <<>>]
        /\ outcome = [p \in Procs |-> Pending]
        /\ applied = [p \in Procs |-> 0]
        /\ log = [p \in Procs |-> <<>>]
        /\ time_frame = [p \in Procs |-> NoTimeFrame]
        /\ time_outcome = [p \in Procs |-> Pending]

\* one thread calls raw_to_phy once, with any arguments
Init ==
    /\ \E c \in Calls : args = [p \in Procs |-> IF p = 1 THEN c ELSE NoCall]
    /\ todo = [p \in Procs |-> <<>>]
    /\ time_args = [p \in Procs |-> NoTimeCall]
    /\ Idle

\* slip: out is one module-level variable, so it may hold what another thread assigned
InitialOut_Shared(p) ==
    LET others == {q \in Procs \ {p} : stack[q] # <<>> /\ ~stack[q][Len(stack[q])].out.none}
    IN  IF others # {}
        THEN LET q == CHOOSE q \in others : TRUE IN stack[q][Len(stack[q])].out
        ELSE None

\* slip: out is not reset, it still holds what the thread's previous call returned
InitialOut_Stale(p) ==
    IF log[p] # <<>> /\ log[p][Len(log[p])].outcome.kind = "returned"
    THEN log[p][Len(log[p])].outcome.value
    ELSE None

\* line 83: out = None, a local of the activation
InitialOut(p) == None

\* slip: raw_signal is still the caller's list and the samples are popped off it
\* as they are converted
CallerAfter_InPlace(p, b) ==
    IF b.act = "assign" THEN [args[p] EXCEPT !.raw_signal = <<>>] ELSE args[p]

\* the caller's arguments after the cascade: line 77 made raw_signal a new
\* array and every expression of the cascade builds a new array, so nothing
\* is written to them
CallerAfter(p, b) == args[p]

\* raw_to_phy(sensor, device, raw_signal, resolution, option) is called
Call(p) ==
    /\ args[p] # NoCall
    /\ stack[p] = <<>>
    /\ outcome[p].kind = "pending"
    /\ stack' = [stack EXCEPT ![p] = <<Frame(args[p], args[p].option)>>]
    /\ UNCHANGED <<args, outcome, applied, seqVars, timeVars>>

\* lines 77-81: the array copy of raw_signal and the check of resolution
CheckResolution(p) ==
    /\ stack[p] # <<>>
    /\ Top(p).pc = "enter"
    /\ IF ~IsInt(Top(p).resolution)
       THEN Unwind(p, InvalidResolution)
       ELSE /\ stack' = SetTop(p, [Top(p) EXCEPT !.pc = "dispatch", !.out = InitialOut(p)])
            /\ UNCHANGED outcome
    /\ UNCHANGED <<args, applied, seqVars, timeVars>>

\* lines 83-200: the cascade over sensor, option and device
Dispatch(p) ==
    /\ stack[p] # <<>>
    /\ Top(p).pc = "dispatch"
    /\ LET f == Top(p)
           b == Branch(f)
       IN  /\ applied' = [applied EXCEPT ![p] = @ + b.work]
           /\ args' = [args EXCEPT ![p] = CallerAfter(p, b)]
           /\ CASE b.act = "raise" -> Unwind(p, b.error)
                [] b.act = "assign" ->
                     /\ stack' = SetTop(p, [f EXCEPT !.out = Array(b.out), !.pc = "return"])
                     /\ UNCHANGED outcome
                [] b.act = "none" ->
                     /\ stack' = SetTop(p, [f EXCEPT !.pc = "return"])
                     /\ UNCHANGED outcome
                [] b.act = "call" ->
                     /\ stack' = [stack EXCEPT ![p] =
                            Append([@ EXCEPT ![Len(@)] =
                                       [f EXCEPT !.pc = IF b.option = "Ohm" THEN "K1" ELSE "wait"]],
                                   Frame(f, b.option))]
                     /\ UNCHANGED outcome
    /\ UNCHANGED <<seqVars, timeVars>>

\* line 202 of a recursive activation whose caller is the K expression (lines 99-102)
ResumeKelvin(p) ==
    /\ Len(stack[p]) > 1
    /\ Top(p).pc = "return"
    /\ LET n == Len(stack[p])
           val == Top(p).out
           f == stack[p][n - 1]
       IN  /\ f.pc \in {"K1", "K2"}
           /\ IF val.none
              THEN Unwind(p, TypeError) /\ UNCHANGED applied
              ELSE /\ applied' = [applied EXCEPT ![p] = @ + Len(val.arr)]
                   /\ UNCHANGED outcome
                   /\ IF f.pc = "K1"
                      THEN stack' = [stack EXCEPT ![p] =
                               Append([i \in 1..(n - 1) |->
                                          IF i = n - 1
                                          THEN [f EXCEPT !.tmp = val.arr, !.pc = "K2"]
                                          ELSE @[i]],
                                      Frame(f, "Ohm"))]
                      ELSE stack' = [stack EXCEPT ![p] =
                               [i \in 1..(n - 1) |->
                                   IF i = n - 1
                                   THEN [f EXCEPT
                                           !.out = Array([j \in 1..Len(val.arr) |->
                                                     SteinhartHart(f.tmp[j], val.arr[j])]),
                                           !.pc = "return"]
                                   ELSE @[i]]]
    /\ UNCHANGED <<args, seqVars, timeVars>>

\* line 202 of a recursive activation whose caller derives C, V or A from it
ResumeDerived(p) ==
    /\ Len(stack[p]) > 1
    /\ Top(p).pc = "return"
    /\ LET n == Len(stack[p])
           val == Top(p).out
           f == stack[p][n - 1]
       IN  /\ f.pc = "wait"
           /\ IF val.none
              THEN Unwind(p, TypeError) /\ UNCHANGED applied
              ELSE /\ applied' = [applied EXCEPT ![p] = @ + Len(val.arr)]
                   /\ UNCHANGED outcome
                   /\ stack' = [stack EXCEPT ![p] =
                          [i \in 1..(n - 1) |->
                              IF i = n - 1
                              THEN [f EXCEPT !.out = Array(Derived(f, val.arr)),
                                             !.pc = "return"]
                              ELSE @[i]]]
    /\ UNCHANGED <<args, seqVars, timeVars>>

\* line 202 of the outermost activation: the caller receives out
Return(p) ==
    /\ Len(stack[p]) = 1
    /\ Top(p).pc = "return"
    /\ outcome' = [outcome EXCEPT ![p] = Returned(Top(p).out)]
    /\ stack' = [stack EXCEPT ![p] = <<>>]
    /\ UNCHANGED <<args, applied, seqVars, timeVars>>

Next ==
    \E p \in Procs :
        \/ Call(p)
        \/ CheckResolution(p)
        \/ Dispatch(p)
        \/ ResumeKelvin(p)
        \/ ResumeDerived(p)
        \/ Return(p)

Spec == Init /\ [][Next]_vars

\* the calls that pass the check of resolution at line 80
IntCalls ==
    [sensor : Sensors, device : Devices, raw_signal : RawSeqs,
     resolution : {IntRes(r) : r \in (0 - NegRes)..MaxRes}, option : Options]

InitInt ==
    /\ \E c \in IntCalls : args = [p \in Procs |-> IF p = 1 THEN c ELSE NoCall]
    /\ todo = [p \in Procs |-> <<>>]
    /\ time_args = [p \in Procs |-> NoTimeCall]
    /\ Idle

\* one thread calls raw_to_phy once, with any arguments and an int resolution
SpecInt == InitInt /\ [][Next]_vars

\* one call for every path through the statements: which statements a call
\* executes depends on sensor, device, option and the type of resolution only
FairCalls ==
    [sensor : Sensors, device : Devices, raw_signal : {<<1>>},
     resolution : {IntRes(1), FloatRes(5, 2)}, option : Options]

InitFair ==
    /\ \E c \in FairCalls : args = [p \in Procs |-> IF p = 1 THEN c ELSE NoCall]
    /\ todo = [p \in Procs |-> <<>>]
    /\ time_args = [p \in Procs |-> NoTimeCall]
    /\ Idle

\* the interpreter keeps executing the statements of a call that has begun
SpecFair == InitFair /\ [][Next]_vars /\ WF_vars(Next)

\* ---------------------------------------------------------- generate_time
Signals == UNION {[1..n -> RawVals] : n \in 0..MaxSamples}
Rates == (0 - NegRate)..MaxRate
TimeCalls == [signal : Signals, sample_rate : Rates, called : {TRUE}]

ZeroDivisionError == "division by zero"

\* slip: the axis ends at the time of the last sample, (nbr_of_samples - 1) / sample_rate
EndOfTime_LastSample(nbr_of_samples, sample_rate) == Rat(nbr_of_samples - 1, sample_rate)

\* line 225: nbr_of_samples / sample_rate, for sample_rate # 0
EndOfTime(nbr_of_samples, sample_rate) == Rat(nbr_of_samples, sample_rate)

\* slip: numpy.linspace(0, stop, num, endpoint=False)
linspace_NoEndpoint(stop, num) ==
    [i \in 1..num |-> Fin(RatDiv(RatMul(<<i - 1, 1>>, stop), <<num, 1>>))]

\* numpy.linspace(0, stop, num): num values from 0 to stop, both included;
\* the single value 0 for num = 1
linspace(stop, num) ==
    [i \in 1..num |->
        IF num = 1 THEN Fin(<<0, 1>>)
        ELSE Fin(RatDiv(RatMul(<<i - 1, 1>>, stop), <<num - 1, 1>>))]

\* generate_time as a function of its arguments
generate_time(c) ==
    IF c.sample_rate = 0 THEN Raised(ZeroDivisionError)
    ELSE Returned(Array(linspace(EndOfTime(Len(c.signal), c.sample_rate), Len(c.signal))))

\* generate_time(signal, sample_rate) is called
GenerateTimeCall(p) ==
    /\ time_args[p].called
    /\ time_frame[p].pc = "idle"
    /\ time_outcome[p].kind = "pending"
    /\ time_frame' = [time_frame EXCEPT ![p].pc = "len"]
    /\ UNCHANGED <<args, stack, outcome, applied, seqVars, time_args, time_outcome>>

\* line 224: nbr_of_samples = len(signal)
CountSamples(p) ==
    /\ time_frame[p].pc = "len"
    /\ time_frame' = [time_frame EXCEPT ![p].nbr_of_samples = Len(time_args[p].signal),
                                        ![p].pc = "divide"]
    /\ UNCHANGED <<args, stack, outcome, applied, seqVars, time_args, time_outcome>>

\* line 225: end_of_time = nbr_of_samples / sample_rate
Divide(p) ==
    /\ time_frame[p].pc = "divide"
    /\ IF time_args[p].sample_rate = 0
       THEN /\ time_frame' = [time_frame EXCEPT ![p] = NoTimeFrame]
            /\ time_outcome' = [time_outcome EXCEPT ![p] = Raised(ZeroDivisionError)]
       ELSE /\ time_frame' = [time_frame EXCEPT
                   ![p].end_of_time = EndOfTime(time_frame[p].nbr_of_samples,
                                                time_args[p].sample_rate),
                   ![p].pc = "linspace"]
            /\ UNCHANGED time_outcome
    /\ UNCHANGED <<args, stack, outcome, applied, seqVars, time_args>>

\* lines 228-230: time_axis = numpy.linspace(0, end_of_time, nbr_of_samples); return list(time_axis)
Linspace(p) ==
    /\ time_frame[p].pc = "linspace"
    /\ time_outcome' = [time_outcome EXCEPT ![p] =
           Returned(Array(linspace(time_frame[p].end_of_time, time_frame[p].nbr_of_samples)))]
    /\ time_frame' = [time_frame EXCEPT ![p] = NoTimeFrame]
    /\ UNCHANGED <<args, stack, outcome, applied, seqVars, time_args>>

\* one thread calls generate_time once, with any arguments
InitTime ==
    /\ \E c \in TimeCalls : time_args = [p \in Procs |-> IF p = 1 THEN c ELSE NoTimeCall]
    /\ args = [p \in Procs |-> NoCall]
    /\ todo = [p \in Procs |-> <<>>]
    /\ Idle

NextTime ==
    \E p \in Procs :
        \/ GenerateTimeCall(p)
        \/ CountSamples(p)
        \/ Divide(p)
        \/ Linspace(p)

SpecTime == InitTime /\ [][NextTime]_vars

\* ------------------------------------------------------ concurrent calls
SmallTimeCalls ==
    [signal : {<<>>, <<1>>, <<0, 2, 1>>}, sample_rate : {0 - 1, 0, 2}, called : {TRUE}]

\* every thread makes one call, of raw_to_phy or of generate_time, and the
\* threads run their calls in any interleaving of the steps
InitConc ==
    /\ \E conv \in SUBSET Procs :
           /\ args \in [Procs -> SmallCalls \cup {NoCall}]
           /\ time_args \in [Procs -> SmallTimeCalls \cup {NoTimeCall}]
           /\ \A p \in Procs : (args[p] # NoCall) = (p \in conv)
           /\ \A p \in Procs : time_args[p].called = (p \notin conv)
    /\ todo = [p \in Procs |-> <<>>]
    /\ Idle

NextConc ==
    \E p \in Procs :
        \/ Call(p)
        \/ CheckResolution(p)
        \/ Dispatch(p)
        \/ ResumeKelvin(p)
        \/ ResumeDerived(p)
        \/ Return(p)
        \/ GenerateTimeCall(p)
        \/ CountSamples(p)
        \/ Divide(p)
        \/ Linspace(p)

SpecConc == InitConc /\ [][NextConc]_vars

\* ------------------------------------------- calls one after the other
\* the caller keeps what the finished call gave and makes its next call
NextCall(p) ==
    /\ outcome[p].kind # "pending"
    /\ todo[p] # <<>>
    /\ log' = [log EXCEPT ![p] = Append(@, [call |-> args[p], outcome |-> outcome[p]])]
    /\ args' = [args EXCEPT ![p] = Head(todo[p])]
    /\ todo' = [todo EXCEPT ![p] = Tail(@)]
    /\ outcome' = [outcome EXCEPT ![p] = Pending]
    /\ applied' = [applied EXCEPT ![p] = 0]
    /\ UNCHANGED <<stack, timeVars>>

\* one thread makes up to MaxCalls calls of raw_to_phy, in any order, repeats included
InitSeq ==
    /\ \E n \in 1..MaxCalls : \E prog \in [1..n -> SmallCalls] :
           /\ args = [p \in Procs |-> IF p = 1 THEN prog[1] ELSE NoCall]
           /\ todo = [p \in Procs |-> IF p = 1 THEN Tail(prog) ELSE <<>>]
    /\ time_args = [p \in Procs |-> NoTimeCall]
    /\ Idle

NextSeq ==
    \E p \in Procs :
        \/ Call(p)
        \/ CheckResolution(p)
        \/ Dispatch(p)
        \/ ResumeKelvin(p)
        \/ ResumeDerived(p)
        \/ Return(p)
        \/ NextCall(p)

SpecSeq == InitSeq /\ [][NextSeq]_vars

\* ------------------------------------------------------------ properties
Done(p) == outcome[p].kind # "pending"

\* the stepwise execution ends as the function of the arguments says
StepwiseAgrees ==
    \A p \in Procs : Done(p) => outcome[p] = raw_to_phy(args[p])

\* the sensor tags raw_to_phy has a branch for
SupportedSensors == {"TEMP", "EMG", "ECG", "BVP", "SpO2.ARM", "SpO2.HEAD", "SpO2.FING"}

\* the units each sensor's branch tests option against
UnitSet(sensor) ==
    IF sensor = "TEMP" THEN {"Ohm", "K", "C"}
    ELSE IF sensor \in {"EMG", "ECG"} THEN {"mV", "V"}
    ELSE IF sensor \in {"BVP", "SpO2.ARM", "SpO2.HEAD", "SpO2.FING"} THEN {"uA", "A"}
    ELSE {}

\* the devices each (sensor, unit) has a transfer function for
DeviceSet(sensor, unit) ==
    LET plux == {"bioplux", "bioplux_exp", "biosignalsplux", "rachimeter", "channeller",
                 "swifter", "ddme_openbanplux"}
        bitalino == {"bitalino", "bitalino_rev", "bitalino_riot"}
    IN  IF sensor = "TEMP" /\ unit \in {"Ohm", "K"} THEN plux
        ELSE IF sensor = "TEMP" /\ unit = "C" THEN plux \cup bitalino
        ELSE IF sensor \in {"EMG", "ECG"} /\ unit \in {"mV", "V"} THEN plux \cup bitalino
        ELSE IF sensor = "BVP" /\ unit \in {"uA", "A"} THEN plux
        ELSE IF sensor \in {"SpO2.ARM", "SpO2.HEAD", "SpO2.FING"} /\ unit \in {"uA", "A"}
        THEN {"channeller", "biosignalsplux", "swifter"}
        ELSE {}

IntegerResolution(p) == args[p].resolution.type = "int"

\* the call of thread p with another unit, or with the single sample i
WithUnit(p, unit) == [args[p] EXCEPT !.option = unit]
WithSample(p, i) == [args[p] EXCEPT !.raw_signal = <<args[p].raw_signal[i]>>]

\* C1: for a supported sensor and an integer resolution, a unit outside the
\* sensor's unit set makes the call fail with UnsupportedUnit, whatever the
\* device; it never returns.
C1_UnsupportedUnitRaises ==
    \A p \in Procs :
        (/\ Done(p)
         /\ IntegerResolution(p)
         /\ args[p].sensor \in SupportedSensors
         /\ args[p].option \notin UnitSet(args[p].sensor))
        => outcome[p] = Raised(UnsupportedUnit)

\* C2: a resolution that is not an int ends the call with InvalidResolution,
\* whatever the sensor, device and unit are, and the call never gets past the
\* check: no cascade is entered and no arithmetic is applied to a sample.
C2_InvalidResolutionFirst ==
    \A p \in Procs :
        ~IntegerResolution(p) =>
            /\ \A i \in DOMAIN stack[p] : stack[p][i].pc = "enter"
            /\ Len(stack[p]) <= 1
            /\ applied[p] = 0
            /\ Done(p) => outcome[p] = Raised(InvalidResolution)

C2_Witness ==
    /\ Done(1)
    /\ args[1].resolution = FloatRes(5, 2)
    /\ args[1].sensor \notin SupportedSensors
    /\ args[1].device = "unknown_device"
    /\ args[1].option = "s"
    /\ outcome[1] = Raised(InvalidResolution)

\* C3: a call with an integer resolution <= 0 is rejected with an error
\* instead of using it as the exponent of 2 and returning converted samples
\* (the claim names InvalidResolution; this formula accepts any error, so
\* only a call that returns violates it).
C3_NonPositiveResolutionRaises ==
    \A p \in Procs :
        (Done(p) /\ IntegerResolution(p) /\ args[p].resolution.n <= 0)
        => (outcome[p].kind = "raised" /\ applied[p] = 0)

\* C4: with an integer resolution, a sensor tag outside the supported set
\* ends the call with UnsupportedSensor for every device, unit and raw
\* sequence.
C4_UnsupportedSensorRaises ==
    \A p \in Procs :
        (Done(p) /\ IntegerResolution(p) /\ args[p].sensor \notin SupportedSensors)
        => outcome[p] = Raised(UnsupportedSensor)

C4_Witness ==
    /\ Done(1)
    /\ IntegerResolution(1)
    /\ args[1].sensor = "EDA"
    /\ args[1].device = "bioplux"
    /\ args[1].option = "mV"
    /\ args[1].raw_signal # <<>>
    /\ outcome[1] = Raised(UnsupportedSensor)

\* C5 as stated: for a supported sensor and a unit of its unit set, a device
\* outside the device set of (sensor, unit) ends the call with
\* UnsupportedDeviceForUnit (for every resolution).
C5_Original ==
    \A p \in Procs :
        (/\ Done(p)
         /\ args[p].sensor \in SupportedSensors
         /\ args[p].option \in UnitSet(args[p].sensor)
         /\ args[p].device \notin DeviceSet(args[p].sensor, args[p].option))
        => outcome[p] = Raised(UnsupportedDeviceForUnit)

\* C5 amended: given an integer resolution, for a supported sensor and a unit
\* of its unit set (primitive or derived), a device outside the device set of
\* (sensor, unit) ends the call with UnsupportedDeviceForUnit.
C5_UnsupportedDeviceRaises ==
    \A p \in Procs :
        (/\ Done(p)
         /\ IntegerResolution(p)
         /\ args[p].sensor \in SupportedSensors
         /\ args[p].option \in UnitSet(args[p].sensor)
         /\ args[p].device \notin DeviceSet(args[p].sensor, args[p].option))
        => outcome[p] = Raised(UnsupportedDeviceForUnit)

C5_Witness ==
    /\ Done(1)
    /\ IntegerResolution(1)
    /\ args[1].sensor = "ECG"
    /\ args[1].device = "unknown_device"
    /\ args[1].option = "V"
    /\ args[1].raw_signal # <<>>
    /\ outcome[1] = Raised(UnsupportedDeviceForUnit)

\* C6: for TEMP and an integer resolution, a unit outside {Ohm, K, C} ends
\* the call with UnsupportedUnit for every device and raw sequence.
C6_TempUnsupportedUnitRaises ==
    \A p \in Procs :
        (/\ Done(p)
         /\ IntegerResolution(p)
         /\ args[p].sensor = "TEMP"
         /\ args[p].option \notin {"Ohm", "K", "C"})
        => outcome[p] = Raised(UnsupportedUnit)

C6_Witness ==
    /\ Done(1)
    /\ IntegerResolution(1)
    /\ args[1].sensor = "TEMP"
    /\ args[1].device = "unknown_device"
    /\ args[1].option = "V"
    /\ args[1].raw_signal # <<>>
    /\ outcome[1] = Raised(UnsupportedUnit)

\* C7: a call that returns without raising returns a sequence as long as
\* raw_signal whose element i is the conversion of element i of raw_signal.
C7_ReturnsSequenceOfSameLength ==
    \A p \in Procs :
        outcome[p].kind = "returned" =>
            /\ ~outcome[p].value.none
            /\ Len(outcome[p].value.arr) = Len(args[p].raw_signal)
            /\ \A i \in 1..Len(args[p].raw_signal) :
                   raw_to_phy(WithSample(p, i)) = Returned(Array(<<outcome[p].value.arr[i]>>))

\* C8: when a call raises, also from inside the recursive call made for a
\* derived unit, no arithmetic has been applied to any sample and no value
\* is handed to the caller.
C8_NoComputationBeforeRaise ==
    \A p \in Procs :
        outcome[p].kind = "raised" => (applied[p] = 0 /\ outcome[p].value = None)

C8_Witness ==
    /\ outcome[1] = Raised(UnsupportedDeviceForUnit)
    /\ args[1].sensor = "TEMP"
    /\ args[1].option = "K"
    /\ args[1].device = "bitalino"
    /\ Len(args[1].raw_signal) = MaxLen
    /\ applied[1] = 0

\* C9: for TEMP, a PLUX device and an integer resolution, the result for
\* unit C is, element by element, the result for unit K minus 273.15 (nan
\* and inf elements are compared as the values they are).
C9_CelsiusIsKelvinMinus27315 ==
    \A p \in Procs :
        (/\ Done(p)
         /\ IntegerResolution(p)
         /\ args[p].sensor = "TEMP"
         /\ args[p].device \in DeviceSet("TEMP", "K")
         /\ args[p].option = "C")
        => LET kelvin == raw_to_phy(WithUnit(p, "K"))
               celsius == outcome[p]
           IN  /\ kelvin.kind = "returned" /\ ~kelvin.value.none
               /\ celsius.kind = "returned" /\ ~celsius.value.none
               /\ Len(celsius.value.arr) = Len(args[p].raw_signal)
               /\ Len(kelvin.value.arr) = Len(args[p].raw_signal)
               /\ \A i \in 1..Len(args[p].raw_signal) :
                      celsius.value.arr[i] = SubConst(kelvin.value.arr[i], <<27315, 100>>)

C9_Witness ==
    /\ Done(1)
    /\ IntegerResolution(1)
    /\ args[1].sensor = "TEMP"
    /\ args[1].device = "bioplux"
    /\ args[1].option = "C"
    /\ args[1].resolution.n = 2
    /\ args[1].raw_signal = <<1, 2>>
    /\ outcome[1].kind = "returned"
    /\ outcome[1].value.arr[1].k = "sh"

\* C10: for EMG and ECG the result for unit V is the result for unit mV
\* divided by 1000, and for BVP and SpO2 the result for unit A is the result
\* for unit uA times 1e-6, element by element, for every supported device,
\* integer resolution and raw sequence.
C10_DerivedScale ==
    \A p \in Procs :
        (/\ Done(p)
         /\ IntegerResolution(p)
         /\ args[p].option \in {"V", "A"}
         /\ args[p].device \in DeviceSet(args[p].sensor, args[p].option))
        => LET unit == IF args[p].option = "V" THEN "mV" ELSE "uA"
               digits == IF args[p].option = "V" THEN 3 ELSE 6
               primitive == raw_to_phy(WithUnit(p, unit))
               derived == outcome[p]
           IN  /\ primitive.kind = "returned" /\ ~primitive.value.none
               /\ derived.kind = "returned" /\ ~derived.value.none
               /\ Len(derived.value.arr) = Len(args[p].raw_signal)
               /\ Len(primitive.value.arr) = Len(args[p].raw_signal)
               /\ \A i \in 1..Len(args[p].raw_signal) :
                      derived.value.arr[i] = ScalePow10(primitive.value.arr[i], digits)

C10_Witness ==
    /\ Done(1)
    /\ IntegerResolution(1)
    /\ args[1].sensor = "SpO2.HEAD"
    /\ args[1].device = "swifter"
    /\ args[1].option = "A"
    /\ args[1].raw_signal = <<1, 2>>
    /\ outcome[1].kind = "returned"
    /\ outcome[1].value.arr[1].e = 6

\* the (offset, gain) of the calibration table for ECG and EMG
CalibrationTable(sensor, device) ==
    LET plux == {"bioplux", "bioplux_exp", "biosignalsplux", "rachimeter", "channeller",
                 "swifter", "ddme_openbanplux"}
    IN  IF sensor = "ECG"
        THEN (IF device \in plux THEN <<(<<1, 2>>), (<<1019, 1000>>)>>
              ELSE <<(<<1, 2>>), (<<11, 10>>)>>)
        ELSE (IF device \in plux THEN <<(<<1, 2>>), (<<1, 1>>)>>
              ELSE IF device = "bitalino" THEN <<(<<1, 2>>), (<<126, 125>>)>>
              ELSE <<(<<1, 2>>), (<<1009, 1000>>)>>)

\* (raw * 3.0 / 2^resolution - 3.0 * offset) / gain
ExpectedMilliVolt(raw, resolution, offset, gain) ==
    [k |-> "fin",
     q |-> RatSub(RatDiv(<<3 * raw, 1>>, Pow2(resolution)), RatMul(<<3, 1>>, offset)),
     gain |-> gain,
     e |-> 0]

\* C11: for ECG and EMG with unit mV (a supported device, an integer
\* resolution) each output sample is (raw * 3.0 / 2^resolution - 3.0 * offset)
\* / gain with the (offset, gain) of the calibration table.
C11_MilliVoltFormula ==
    \A p \in Procs :
        (/\ Done(p)
         /\ IntegerResolution(p)
         /\ args[p].sensor \in {"ECG", "EMG"}
         /\ args[p].option = "mV"
         /\ args[p].device \in DeviceSet(args[p].sensor, "mV"))
        => LET cal == CalibrationTable(args[p].sensor, args[p].device)
           IN  /\ outcome[p].kind = "returned" /\ ~outcome[p].value.none
               /\ Len(outcome[p].value.arr) = Len(args[p].raw_signal)
               /\ \A i \in 1..Len(args[p].raw_signal) :
                      outcome[p].value.arr[i] =
                          ExpectedMilliVolt(args[p].raw_signal[i], args[p].resolution,
                                            cal[1], cal[2])

C11_Witness ==
    /\ Done(1)
    /\ args[1].sensor = "EMG"
    /\ args[1].device = "bitalino_riot"
    /\ args[1].option = "mV"
    /\ args[1].resolution = IntRes(2)
    /\ args[1].raw_signal = <<0, 2>>
    /\ outcome[1].kind = "returned"
    /\ outcome[1].value.arr[1] = [k |-> "fin", q |-> <<0 - 3, 2>>, gain |-> <<1009, 1000>>, e |-> 0]
    /\ outcome[1].value.arr[2] = [k |-> "fin", q |-> <<0, 1>>, gain |-> <<1009, 1000>>, e |-> 0]

\* x < y for two finite values with the same positive gain and the same scale
FloatLess(x, y) ==
    /\ x.k = "fin" /\ y.k = "fin"
    /\ x.gain = y.gain /\ x.e = y.e
    /\ x.gain[1] > 0 /\ x.gain[2] > 0
    /\ RatLess(x.q, y.q)

\* C12: for ECG and EMG with unit mV, a fixed supported device and a fixed
\* resolution, a strictly larger raw sample gives a strictly larger output.
C12_MilliVoltMonotonic ==
    \A p \in Procs :
        (/\ Done(p)
         /\ IntegerResolution(p)
         /\ args[p].sensor \in {"ECG", "EMG"}
         /\ args[p].option = "mV"
         /\ args[p].device \in DeviceSet(args[p].sensor, "mV"))
        => /\ outcome[p].kind = "returned" /\ ~outcome[p].value.none
           /\ Len(outcome[p].value.arr) = Len(args[p].raw_signal)
           /\ \A i, j \in 1..Len(args[p].raw_signal) :
                  args[p].raw_signal[i] < args[p].raw_signal[j]
                  => FloatLess(outcome[p].value.arr[i], outcome[p].value.arr[j])

C12_Witness ==
    /\ Done(1)
    /\ args[1].sensor = "ECG"
    /\ args[1].device = "bitalino"
    /\ args[1].option = "mV"
    /\ args[1].resolution = IntRes(0 - 1)
    /\ args[1].raw_signal = <<2, 0 - 1>>
    /\ outcome[1].kind = "returned"
    /\ FloatLess(outcome[1].value.arr[2], outcome[1].value.arr[1])

\* the finished calls of thread p in the order they were made
Completed(p) ==
    IF outcome[p].kind # "pending"
    THEN Append(log[p], [call |-> args[p], outcome |-> outcome[p]])
    ELSE log[p]

\* C13: two calls of raw_to_phy with identical arguments end identically (the
\* same array, the same None or the same error), whatever calls were made
\* before or between them.
C13_Deterministic ==
    \A p \in Procs :
        \A i, j \in 1..Len(Completed(p)) :
            Completed(p)[i].call = Completed(p)[j].call
            => Completed(p)[i].outcome = Completed(p)[j].outcome

C13_Witness ==
    /\ Len(Completed(1)) = 3
    /\ Completed(1)[1].call = Completed(1)[3].call
    /\ Completed(1)[2].call # Completed(1)[1].call
    /\ Completed(1)[1].call.option = "s"
    /\ Completed(1)[1].outcome = Returned(None)
    /\ Completed(1)[2].outcome.kind = "returned"
    /\ ~Completed(1)[2].outcome.value.none
    /\ Completed(1)[3].outcome = Returned(None)

TimeDone(p) == time_outcome[p].kind # "pending"
SampleCount(p) == Len(time_args[p].signal)

\* C14: generate_time fails with an error whenever sample_rate is zero or
\* negative, for every signal length; it never returns a time sequence for
\* such a rate (the claim names InvalidSampleRate; this formula accepts any
\* error, so only a call that returns violates it).
C14_NonPositiveRateRaises ==
    \A p \in Procs :
        (TimeDone(p) /\ time_args[p].sample_rate <= 0)
        => time_outcome[p].kind = "raised"

\* C15 as stated: for every non-empty signal and positive sample_rate,
\* generate_time returns sample_count values, the first 0 and the last
\* sample_count / sample_rate.
C15_Original ==
    \A p \in Procs :
        (TimeDone(p) /\ SampleCount(p) >= 1 /\ time_args[p].sample_rate > 0)
        => /\ time_outcome[p].kind = "returned" /\ ~time_outcome[p].value.none
           /\ Len(time_outcome[p].value.arr) = SampleCount(p)
           /\ time_outcome[p].value.arr[1] = Fin(<<0, 1>>)
           /\ time_outcome[p].value.arr[SampleCount(p)] =
                  Fin(Rat(SampleCount(p), time_args[p].sample_rate))

\* C15 amended: for every signal of at least two samples and every positive
\* sample_rate, generate_time returns sample_count values, the first 0 and
\* the last sample_count / sample_rate; for a signal of one sample it returns
\* the single value 0.
C15_Endpoints ==
    \A p \in Procs :
        (TimeDone(p) /\ SampleCount(p) >= 1 /\ time_args[p].sample_rate > 0)
        => /\ time_outcome[p].kind = "returned" /\ ~time_outcome[p].value.none
           /\ Len(time_outcome[p].value.arr) = SampleCount(p)
           /\ time_outcome[p].value.arr[1] = Fin(<<0, 1>>)
           /\ SampleCount(p) >= 2 =>
                  time_outcome[p].value.arr[SampleCount(p)] =
                      Fin(Rat(SampleCount(p), time_args[p].sample_rate))

C15_Witness ==
    /\ TimeDone(1)
    /\ SampleCount(1) = 3
    /\ time_args[1].sample_rate = 2
    /\ time_outcome[1].kind = "returned"
    /\ time_outcome[1].value.arr[3] = Fin(<<3, 2>>)

\* C16: for every positive sample_rate and sample_count >= 2 the returned
\* sequence is strictly increasing and all consecutive elements differ by
\* (sample_count / sample_rate) / (sample_count - 1), which is not
\* 1 / sample_rate.
C16_UniformSpacing ==
    \A p \in Procs :
        (TimeDone(p) /\ SampleCount(p) >= 2 /\ time_args[p].sample_rate > 0)
        => LET n == SampleCount(p)
               t == time_outcome[p].value.arr
               step == Rat(n, time_args[p].sample_rate * (n - 1))
           IN  /\ time_outcome[p].kind = "returned" /\ ~time_outcome[p].value.none
               /\ Len(t) = n
               /\ step # Rat(1, time_args[p].sample_rate)
               /\ \A i \in 1..(n - 1) :
                      /\ t[i].k = "fin" /\ t[i + 1].k = "fin"
                      /\ RatLess(t[i].q, t[i + 1].q)
                      /\ RatSub(t[i + 1].q, t[i].q) = step

C16_Witness ==
    /\ TimeDone(1)
    /\ SampleCount(1) = 4
    /\ time_args[1].sample_rate = 3
    /\ time_outcome[1].kind = "returned"
    /\ time_outcome[1].value.arr[2] = Fin(<<4, 9>>)
    /\ time_outcome[1].value.arr[3] = Fin(<<8, 9>>)

\* C17: no step of a call of raw_to_phy or of generate_time, returning or
\* raising, recursive or not, changes the caller's arguments: raw_signal and
\* signal keep their elements in their order.
C17_ArgumentsUnchanged ==
    [][args' = args /\ time_args' = time_args]_vars

C17_Witness ==
    /\ Done(1)
    /\ args[1] = CallOf("TEMP", "bioplux", <<1, 2>>, IntRes(2), "C")
    /\ outcome[1].kind = "returned"
    /\ Len(outcome[1].value.arr) = 2
    /\ TimeDone(2)
    /\ time_args[2].signal = <<0, 2, 1>>
    /\ time_outcome[2].kind = "returned"

\* C18: under every interleaving of the steps of concurrent calls, a call of
\* raw_to_phy ends exactly as the same call does when it runs alone.
C18_NoInterference ==
    \A p \in Procs :
        LET alone == raw_to_phy(args[p])
        IN  /\ outcome[p].kind = "returned" => alone = Returned(outcome[p].value)
            /\ outcome[p].kind = "raised" => alone = Raised(outcome[p].error)

C18_Witness ==
    /\ args[1] = CallOf("EMG", "bioplux", <<1>>, IntRes(2), "s")
    /\ args[2] = CallOf("TEMP", "bioplux", <<1, 2>>, IntRes(2), "C")
    /\ outcome[1] = Returned(None)
    /\ Len(stack[2]) = 3
    /\ stack[2][3].pc = "return"

\* the steps of the unit chain: a derived unit and the unit it is computed from
UnitChain == {<<"C", "K">>, <<"K", "Ohm">>, <<"V", "mV">>, <<"A", "uA">>}

NestingOfChain ==
    \A p \in Procs :
        /\ Len(stack[p]) <= 3
        /\ \A i \in 2..Len(stack[p]) :
               LET outer == stack[p][i - 1]
                   inner == stack[p][i]
               IN  /\ inner.sensor = outer.sensor
                   /\ inner.device = outer.device
                   /\ inner.resolution = outer.resolution
                   /\ inner.raw_signal = outer.raw_signal
                   /\ <<outer.option, inner.option>> \in UnitChain

\* C19: every call of raw_to_phy ends (returns or raises); a recursive
\* activation has the sensor, device, resolution and samples of its caller
\* and the unit one step down the chain C -> K -> Ohm, V -> mV, A -> uA, and
\* there are never more than 3 nested activations.
C19_Terminates ==
    /\ []NestingOfChain
    /\ <>(\A p \in Procs : args[p] # NoCall => Done(p))

C19_Witness ==
    /\ Len(stack[1]) = 3
    /\ stack[1][1].option = "C"
    /\ stack[1][2].option = "K"
    /\ stack[1][3].option = "Ohm"
    /\ stack[1][3].pc = "return"
    /\ stack[1][2].pc = "K2"

\* 1e4 * raw / (2^resolution - raw): inf where the denominator is zero
ExpectedOhm(raw, resolution) ==
    LET den == RatSub(Pow2(resolution), <<raw, 1>>)
    IN  IF den[1] = 0 THEN [k |-> "inf", s |-> 1]
        ELSE [k |-> "fin", q |-> RatDiv(<<10000 * raw, 1>>, den), gain |-> <<1, 1>>, e |-> 0]

\* the units whose transfer function is one-to-one on the codes (K, and C
\* derived from it, are nan for every code that gives a negative resistance)
OneToOne(sensor, device, unit) ==
    \/ unit \in {"Ohm", "mV", "V", "uA", "A"}
    \/ unit = "C" /\ device \in {"bitalino", "bitalino_rev", "bitalino_riot"}

\* C20: for a supported (sensor, device, unit) and an integer resolution the
\* call returns one value per sample whatever the codes are, negative ones and
\* ones at or above 2^resolution included; no code is clamped: different codes
\* give different values where the transfer function is one-to-one, and TEMP
\* Ohm is 1e4 * raw / (2^resolution - raw) for every code, inf at raw =
\* 2^resolution.
C20_NoRejectionNoClamping ==
    \A p \in Procs :
        (/\ Done(p)
         /\ IntegerResolution(p)
         /\ args[p].sensor \in SupportedSensors
         /\ args[p].option \in UnitSet(args[p].sensor)
         /\ args[p].device \in DeviceSet(args[p].sensor, args[p].option))
        => LET raw == args[p].raw_signal
               out == outcome[p].value.arr
           IN  /\ outcome[p].kind = "returned"
               /\ ~outcome[p].value.none
               /\ Len(out) = Len(raw)
               /\ OneToOne(args[p].sensor, args[p].device, args[p].option)
                  => \A i, j \in 1..Len(raw) : raw[i] # raw[j] => out[i] # out[j]
               /\ (args[p].sensor = "TEMP" /\ args[p].option = "Ohm")
                  => \A i \in 1..Len(raw) : out[i] = ExpectedOhm(raw[i], args[p].resolution)

C20_Witness ==
    /\ Done(1)
    /\ args[1] = CallOf("TEMP", "bioplux", <<2, 0 - 1>>, IntRes(1), "Ohm")
    /\ outcome[1].kind = "returned"
    /\ outcome[1].value.arr[1] = Inf(1)
    /\ outcome[1].value.arr[2] = Fin(Rat(0 - 10000, 3))

\* C21: for TEMP with unit Ohm and an integer resolution, a PLUX device gives
\* (10000 * raw) / (2^resolution - raw) for each sample and every other
\* device, the BITalino ones included, ends the call with
\* UnsupportedDeviceForUnit.
C21_TempOhm ==
    \A p \in Procs :
        (/\ Done(p)
         /\ IntegerResolution(p)
         /\ args[p].sensor = "TEMP"
         /\ args[p].option = "Ohm")
        => IF args[p].device \in DeviceSet("TEMP", "Ohm")
           THEN /\ outcome[p].kind = "returned" /\ ~outcome[p].value.none
                /\ Len(outcome[p].value.arr) = Len(args[p].raw_signal)
                /\ \A i \in 1..Len(args[p].raw_signal) :
                       outcome[p].value.arr[i] =
                           ExpectedOhm(args[p].raw_signal[i], args[p].resolution)
           ELSE outcome[p] = Raised(UnsupportedDeviceForUnit)

C21_Witness ==
    /\ Done(1)
    /\ args[1] = CallOf("TEMP", "bitalino_riot", <<1, 0>>, IntRes(2), "Ohm")
    /\ outcome[1] = Raised(UnsupportedDeviceForUnit)

\* ((raw / 2^resolution) * 3.0 - 0.5) * 100
ExpectedCelsius(raw, resolution) ==
    [k |-> "fin",
     q |-> RatMul(RatSub(RatMul(RatDiv(<<raw, 1>>, Pow2(resolution)), <<3, 1>>), <<1, 2>>),
                  <<100, 1>>),
     gain |-> <<1, 1>>,
     e |-> 0]

\* C22: for TEMP with unit C and an integer resolution, a BITalino device gives
\* ((raw / 2^resolution) * 3.0 - 0.5) * 100 for each sample in the one
\* activation of the call, with no K or Ohm activation and no other
\* arithmetic; a PLUX device gets its result from a K activation, as the K
\* result minus 273.15.
C22_TempCelsius ==
    \A p \in Procs :
        (/\ IntegerResolution(p)
         /\ args[p].sensor = "TEMP"
         /\ args[p].option = "C")
        => LET raw == args[p].raw_signal
               n == Len(raw)
               out == outcome[p].value.arr
           IN  /\ args[p].device \in {"bitalino", "bitalino_rev", "bitalino_riot"}
                  => /\ Len(stack[p]) <= 1
                     /\ Done(p)
                        => /\ outcome[p].kind = "returned" /\ ~outcome[p].value.none
                           /\ Len(out) = n
                           /\ \A i \in 1..n : out[i] = ExpectedCelsius(raw[i], args[p].resolution)
                           /\ applied[p] = n
               /\ args[p].device \in DeviceSet("TEMP", "K")
                  => /\ Len(stack[p]) >= 2 => stack[p][2].option = "K"
                     /\ Done(p)
                        => LET kelvin == raw_to_phy(WithUnit(p, "K"))
                           IN  /\ outcome[p].kind = "returned" /\ ~outcome[p].value.none
                               /\ kelvin.kind = "returned"
                               /\ Len(out) = n
                               /\ \A i \in 1..n :
                                      out[i] = SubConst(kelvin.value.arr[i], <<5463, 20>>)
                               /\ n > 0 => applied[p] > n

C22_Witness ==
    /\ Done(1)
    /\ args[1] = CallOf("TEMP", "bitalino_rev", <<1, 2>>, IntRes(2), "C")
    /\ outcome[1].kind = "returned"
    /\ outcome[1].value.arr[1] = Fin(<<25, 1>>)
    /\ applied[1] = 2

\* C23: for TEMP, unit K is computed from the Ohm conversion of the same
\* device, resolution and samples and ends as that conversion ends: it returns
\* exactly when Ohm returns and fails with Ohm's error otherwise. With an
\* integer resolution and a BITalino device K fails with
\* UnsupportedDeviceForUnit although C returns for that device.
C23_KelvinThroughOhm ==
    \A p \in Procs :
        (args[p].sensor = "TEMP" /\ args[p].option = "K")
        => LET ohm == raw_to_phy(WithUnit(p, "Ohm"))
               celsius == raw_to_phy(WithUnit(p, "C"))
               n == Len(args[p].raw_signal)
           IN  /\ \A i \in 2..Len(stack[p]) :
                      /\ stack[p][i].option = "Ohm"
                      /\ stack[p][i].device = args[p].device
                      /\ stack[p][i].resolution = args[p].resolution
                      /\ stack[p][i].raw_signal = args[p].raw_signal
               /\ Done(p)
                  => /\ outcome[p].kind = ohm.kind
                     /\ outcome[p].kind = "raised" => outcome[p].error = ohm.error
                     /\ outcome[p].kind = "returned"
                        => /\ ~outcome[p].value.none
                           /\ Len(outcome[p].value.arr) = n
                           /\ \A i \in 1..n :
                                  outcome[p].value.arr[i] =
                                      SteinhartHart(ohm.value.arr[i], ohm.value.arr[i])
                     /\ (/\ IntegerResolution(p)
                         /\ args[p].device \in {"bitalino", "bitalino_rev", "bitalino_riot"})
                        => /\ outcome[p] = Raised(UnsupportedDeviceForUnit)
                           /\ celsius.kind = "returned"
                           /\ ~celsius.value.none

C23_Witness ==
    /\ Done(1)
    /\ args[1] = CallOf("TEMP", "bitalino", <<1, 2>>, IntRes(2), "K")
    /\ outcome[1] = Raised(UnsupportedDeviceForUnit)
    /\ raw_to_phy(WithUnit(1, "C")).kind = "returned"

\* 1.2 for the Arm and Finger sites, 0.15 for the Head site
SiteScale(sensor) == IF sensor = "SpO2.HEAD" THEN <<3, 20>> ELSE <<6, 5>>

\* C24: for the SpO2 sensors with an integer resolution, unit uA and one of
\* channeller, biosignalsplux, swifter, each output sample is scale_factor *
\* (raw / 2^resolution) with scale_factor 1.2 for Arm and Finger and 0.15 for
\* Head; no call for an SpO2 sensor ever fails for want of a scale factor.
C24_SpO2MicroAmpere ==
    \A p \in Procs :
        (/\ Done(p)
         /\ IntegerResolution(p)
         /\ args[p].sensor \in {"SpO2.ARM", "SpO2.HEAD", "SpO2.FING"})
        => /\ outcome[p] # Raised(TypeError)
           /\ (/\ args[p].option = "uA"
               /\ args[p].device \in DeviceSet(args[p].sensor, "uA"))
              => LET raw == args[p].raw_signal
                     out == outcome[p].value.arr
                 IN  /\ outcome[p].kind = "returned" /\ ~outcome[p].value.none
                     /\ Len(out) = Len(raw)
                     /\ \A i \in 1..Len(raw) :
                            out[i] = [k |-> "fin",
                                      q |-> RatMul(SiteScale(args[p].sensor),
                                                   RatDiv(<<raw[i], 1>>,
                                                          Pow2(args[p].resolution))),
                                      gain |-> <<1, 1>>,
                                      e |-> 0]

C24_Witness ==
    /\ Done(1)
    /\ args[1] = CallOf("SpO2.HEAD", "channeller", <<2, 1>>, IntRes(2), "uA")
    /\ outcome[1].kind = "returned"
    /\ outcome[1].value.arr = <<Fin(<<3, 40>>), Fin(<<3, 80>>)>>

\* C25: for BVP with an integer resolution, unit uA and a PLUX device, each
\* output sample is (raw * 3.0 / 2^resolution - 3.0 * 0) / 0.190060606; it is
\* 0 for raw = 0 and a larger raw sample gives a larger output.
C25_BvpMicroAmpere ==
    \A p \in Procs :
        (/\ Done(p)
         /\ IntegerResolution(p)
         /\ args[p].sensor = "BVP"
         /\ args[p].option = "uA"
         /\ args[p].device \in DeviceSet("BVP", "uA"))
        => LET raw == args[p].raw_signal
               out == outcome[p].value.arr
           IN  /\ outcome[p].kind = "returned" /\ ~outcome[p].value.none
               /\ Len(out) = Len(raw)
               /\ \A i \in 1..Len(raw) :
                      /\ out[i] = [k |-> "fin",
                                   q |-> RatDiv(<<3 * raw[i], 1>>, Pow2(args[p].resolution)),
                                   gain |-> <<95030303, 500000000>>,
                                   e |-> 0]
                      /\ raw[i] = 0 => out[i].q[1] = 0
               /\ \A i, j \in 1..Len(raw) : raw[i] < raw[j] => FloatLess(out[i], out[j])

C25_Witness ==
    /\ Done(1)
    /\ args[1] = CallOf("BVP", "rachimeter", <<0, 2>>, IntRes(1), "uA")
    /\ outcome[1].kind = "returned"
    /\ outcome[1].value.arr[1].q = <<0, 1>>
    /\ outcome[1].value.arr[2].q = <<3, 1>>

\* C26: given an integer resolution, the call ends with
\* UnsupportedDeviceForUnit exactly when the sensor is supported, the unit is
\* in the sensor's unit set and the device is outside the device set of
\* (sensor, unit): the 7 PLUX devices for TEMP Ohm and K and for BVP, these
\* and the 3 BITalino devices for TEMP C, EMG and ECG, and channeller,
\* biosignalsplux, swifter for SpO2.
C26_UnsupportedDeviceExactly ==
    \A p \in Procs :
        (Done(p) /\ IntegerResolution(p))
        => ((outcome[p].kind = "raised" /\ outcome[p].error = UnsupportedDeviceForUnit)
            <=> (/\ args[p].sensor \in SupportedSensors
                 /\ args[p].option \in UnitSet(args[p].sensor)
                 /\ args[p].device \notin DeviceSet(args[p].sensor, args[p].option)))

C26_Witness ==
    /\ Done(1)
    /\ args[1] = CallOf("BVP", "bitalino", <<1>>, IntRes(2), "A")
    /\ outcome[1] = Raised(UnsupportedDeviceForUnit)
    /\ raw_to_phy(CallOf("SpO2.ARM", "bioplux", <<1>>, IntRes(2), "uA"))
           = Raised(UnsupportedDeviceForUnit)
    /\ raw_to_phy(CallOf("BVP", "bioplux", <<1>>, IntRes(2), "A")).kind = "returned"

\* the unit a derived unit is computed from
Primitive(unit) == IF unit = "V" THEN "mV" ELSE "uA"

\* C27: for every sensor, device, integer resolution and raw sequence, the
\* call with unit V (or A) returns exactly when the call with unit mV (or uA)
\* and the same other arguments returns, and fails with the same error when
\* that call fails.
C27_DerivedAsPrimitive ==
    \A p \in Procs :
        (/\ Done(p)
         /\ IntegerResolution(p)
         /\ args[p].option \in {"V", "A"})
        => LET primitive == raw_to_phy(WithUnit(p, Primitive(args[p].option)))
           IN  /\ outcome[p].kind = primitive.kind
               /\ outcome[p].error = primitive.error
               /\ outcome[p].value.none = primitive.value.none

C27_Witness ==
    /\ Done(1)
    /\ args[1] = CallOf("ECG", "unknown_device", <<1>>, IntRes(2), "V")
    /\ outcome[1] = Raised(UnsupportedDeviceForUnit)
    /\ raw_to_phy(WithUnit(1, "mV")) = Raised(UnsupportedDeviceForUnit)
    /\ raw_to_phy(CallOf("SpO2.FING", "swifter", <<1>>, IntRes(2), "A")).kind = "returned"

\* the device lists of a sensor in the order the code tests them, each with
\* the gain assigned under it (TEMP assigns none: 0 stands for that)
Families(sensor) ==
    IF sensor = "TEMP"
    THEN <<(<<TEMP_available_dev_1, <<0, 1>>>>), (<<TEMP_available_dev_2, <<0, 1>>>>)>>
    ELSE IF sensor = "EMG"
    THEN <<(<<EMG_available_dev_1, <<1, 1>>>>), (<<EMG_available_dev_2, <<126, 125>>>>),
           (<<EMG_available_dev_3, <<1009, 1000>>>>)>>
    ELSE <<(<<ECG_available_dev_1, <<1019, 1000>>>>), (<<ECG_available_dev_2, <<11, 10>>>>)>>

\* C28: for TEMP, EMG and ECG the device lists of the sensor are pairwise
\* disjoint: a device is in at most one of them, a supported device in exactly
\* one, and the mV result is the formula with the gain of whichever list holds
\* the device, so the order of the tests does not matter.
C28_FamiliesDisjoint ==
    \A p \in Procs :
        (/\ Done(p)
         /\ IntegerResolution(p)
         /\ args[p].sensor \in {"TEMP", "EMG", "ECG"})
        => LET fam == Families(args[p].sensor)
               hits == {k \in 1..Len(fam) : args[p].device \in fam[k][1]}
               unit == IF args[p].sensor = "TEMP" THEN "C" ELSE "mV"
               raw == args[p].raw_signal
           IN  /\ \A k, l \in 1..Len(fam) : k # l => fam[k][1] \cap fam[l][1] = {}
               /\ Cardinality(hits) <= 1
               /\ args[p].device \in DeviceSet(args[p].sensor, unit) => Cardinality(hits) = 1
               /\ (args[p].option = "mV" /\ args[p].sensor # "TEMP")
                  => \A k \in hits :
                        /\ outcome[p].kind = "returned" /\ ~outcome[p].value.none
                        /\ Len(outcome[p].value.arr) = Len(raw)
                        /\ \A i \in 1..Len(raw) :
                               outcome[p].value.arr[i] =
                                   ExpectedMilliVolt(raw[i], args[p].resolution,
                                                     <<1, 2>>, fam[k][2])

C28_Witness ==
    /\ Done(1)
    /\ args[1] = CallOf("EMG", "bitalino_rev", <<1, 2>>, IntRes(2), "mV")
    /\ outcome[1].kind = "returned"
    /\ outcome[1].value.arr[1].gain = <<1009, 1000>>

\* the call of thread p with the samples from..to of its raw sequence
WithSamples(p, from, to) ==
    [args[p] EXCEPT !.raw_signal = SubSeq(args[p].raw_signal, from, to)]

\* C29: for a supported (sensor, device, unit) and an integer resolution the
\* conversion is pointwise: however the raw sequence is cut in two, the result
\* is the result for the first part followed by the result for the second
\* part, and an empty sequence gives an empty result.
C29_Pointwise ==
    \A p \in Procs :
        (/\ Done(p)
         /\ IntegerResolution(p)
         /\ args[p].sensor \in SupportedSensors
         /\ args[p].option \in UnitSet(args[p].sensor)
         /\ args[p].device \in DeviceSet(args[p].sensor, args[p].option))
        => LET n == Len(args[p].raw_signal)
           IN  /\ outcome[p].kind = "returned" /\ ~outcome[p].value.none
               /\ n = 0 => outcome[p].value.arr = <<>>
               /\ \A cut \in 0..n :
                      LET first == raw_to_phy(WithSamples(p, 1, cut))
                          second == raw_to_phy(WithSamples(p, cut + 1, n))
                      IN  /\ first.kind = "returned" /\ second.kind = "returned"
                          /\ outcome[p].value.arr = first.value.arr \o second.value.arr

C29_Witness ==
    /\ Done(1)
    /\ args[1] = CallOf("SpO2.ARM", "swifter", <<2, 1>>, IntRes(1), "A")
    /\ outcome[1].kind = "returned"
    /\ Len(outcome[1].value.arr) = 2
    /\ outcome[1].value.arr[1] # outcome[1].value.arr[2]
    /\ raw_to_phy(WithSamples(1, 2, 2)).value.arr = <<outcome[1].value.arr[2]>>

====
